---- MODULE Spec2Model ----
(***************************************************************************)
(* Seat reservation engine of src/app.py: the reservation table, the admin *)
(* table, the per-caller Flask session and the request handlers            *)
(* make_reservation, admin_login, admin_logout and delete_reservation,     *)
(* each split at its accesses to the shared database so that concurrent    *)
(* requests interleave as the threaded server lets them.                   *)
(***************************************************************************)
EXTENDS Integers, Sequences, FiniteSets, TLC

VARIABLES
    reservations,   \* rows of table 'reservations' (class Reservation)
    admins,         \* rows of table 'admins' (class Admin)
    session,        \* Flask session of each caller, as the handlers read and
                    \* write it (the signed cookie that carries it is not modelled)
    booted,         \* init_db() has run and app.run() is serving
    req             \* per worker: the request it handles, its locals, its response

vars == <<reservations, admins, session, booted, req>>

(***************************** bounds **************************************)
\* largest rowid the reservations table hands out (SQLite's is 2^63 - 1)
MaxRowId == 2

\* the requests the threaded server handles at the same time
Procs == {1, 2}
Callers == {"alice", "bob"}
\* values secrets.token_hex(6).upper() may return (two of the 16^12)
Tokens == {"0A1B2C3D4E5F", "A0B1C2D3E4F5"}

(************************** program constants *****************************)
NumRows == 12
NumCols == 4
Rows == 0..(NumRows - 1)
Cols == 0..(NumCols - 1)

(************************ strings as character sequences ******************)
Whitespace == {" "}
Digits == <<"0", "1", "2", "3", "4", "5", "6", "7", "8", "9">>

RECURSIVE LStrip(_)
LStrip(s) ==
    IF s # <<>> /\ Head(s) \in Whitespace THEN LStrip(Tail(s)) ELSE s

RECURSIVE RStrip(_)
RStrip(s) ==
    IF s # <<>> /\ s[Len(s)] \in Whitespace
    THEN RStrip(SubSeq(s, 1, Len(s) - 1))
    ELSE s

\* str.strip()
Strip(s) == RStrip(LStrip(s))

DigitValue(ch) == (CHOOSE i \in 1..10 : Digits[i] = ch) - 1

IsDigit(ch) == \E i \in 1..10 : Digits[i] = ch

RECURSIVE DigitsValue(_)
DigitsValue(s) ==
    IF s = <<>> THEN 0
    ELSE 10 * DigitsValue(SubSeq(s, 1, Len(s) - 1)) + DigitValue(s[Len(s)])

\* a form field: request.form.get(key) is None when the field is missing
NoField == [present |-> FALSE, text |-> <<>>]
Field(s) == [present |-> TRUE, text |-> s]

\* request.form.get(key, '')
FormGetOr(form, key, default) ==
    IF form[key].present THEN form[key].text ELSE default

\* int(x): TypeError for None, ValueError for text that is no decimal integer
IntOf(f) ==
    IF ~f.present THEN [ok |-> FALSE, val |-> 0]
    ELSE LET t == Strip(f.text)
             signed == t # <<>> /\ Head(t) \in {"-", "+"}
             d == IF signed THEN Tail(t) ELSE t
         IN  IF d # <<>> /\ \A i \in 1..Len(d) : IsDigit(d[i])
             THEN [ok |-> TRUE,
                   val |-> IF signed /\ Head(t) = "-"
                           THEN 0 - DigitsValue(d) ELSE DigitsValue(d)]
             ELSE [ok |-> FALSE, val |-> 0]

(*************************** database rows *********************************)
\* class Reservation (created, the utcnow() default, is read nowhere)
NewReservation(id, passengerName, seatRow, seatColumn, eTicketNumber) ==
    [id |-> id, passengerName |-> passengerName, seatRow |-> seatRow,
     seatColumn |-> seatColumn, eTicketNumber |-> eTicketNumber]

\* class Admin
NewAdmin(username, password) == [username |-> username, password |-> password]

DefaultAdmin == NewAdmin("admin", "admin123")

MaxOf(S) == CHOOSE x \in S : \A y \in S : y <= x

\* id INTEGER PRIMARY KEY on SQLite: the rowid, one more than the largest
\* rowid in the table (no AUTOINCREMENT keyword, so a deleted id comes back)
NextRowId(table) ==
    IF table = {} THEN 1 ELSE MaxOf({r.id : r \in table}) + 1

(**************************** pure helpers *********************************)
get_cost_matrix == [row \in Rows |-> <<100, 75, 50, 100>>]

\* mutant: the upper bounds are compared with <=
InRangeInclusive(row, col) ==
    0 <= row /\ row <= NumRows /\ 0 <= col /\ col <= NumCols

InRange(row, col) == 0 <= row /\ row < NumRows /\ 0 <= col /\ col < NumCols

\* the loop of get_seating_chart over Reservation.query.all()
RECURSIVE MarkReserved(_, _)
MarkReserved(chart, rows) ==
    IF rows = {} THEN chart
    ELSE LET reservation == CHOOSE r \in rows : TRUE
             row == reservation.seatRow
             col == reservation.seatColumn
             marked == IF InRange(row, col)
                       THEN [chart EXCEPT ![row][col + 1] = "X"]
                       ELSE chart
         IN  MarkReserved(marked, rows \ {reservation})

\* mutant: the twelve rows of the chart are one and the same list
get_seating_chart_aliased(table) ==
    LET chart == MarkReserved([row \in Rows |-> [col \in 1..NumCols |-> "O"]],
                              table)
    IN  [row \in Rows |->
            [col \in 1..NumCols |->
                IF \E other \in Rows : chart[other][col] = "X" THEN "X" ELSE "O"]]

\* chart[row][col + 1] is cell (row, col): rows are 1-based TLA+ sequences
get_seating_chart(table) ==
    MarkReserved([row \in Rows |-> [col \in 1..NumCols |-> "O"]], table)

\* mutant: the query filters seatRow by the column and seatColumn by the row
is_seat_available_swapped(table, row, col) ==
    ~ \E reservation \in table :
          reservation.seatRow = col /\ reservation.seatColumn = row

is_seat_available(table, row, col) ==
    ~ \E reservation \in table :
          reservation.seatRow = row /\ reservation.seatColumn = col

\* mutant: the total is added up over the cells of the seating chart
calculate_total_sales_from_chart(table) ==
    LET chart == get_seating_chart(table)
        sold(col) == Cardinality({row \in Rows : chart[row][col + 1] = "X"})
    IN  100 * sold(0) + 75 * sold(1) + 50 * sold(2) + 100 * sold(3)

\* the loop of calculate_total_sales over Reservation.query.all()
RECURSIVE SumSales(_, _)
SumSales(total, rows) ==
    IF rows = {} THEN total
    ELSE LET reservation == CHOOSE r \in rows : TRUE
             row == reservation.seatRow
             col == reservation.seatColumn
         IN  SumSales(IF InRange(row, col)
                      THEN total + get_cost_matrix[row][col + 1]
                      ELSE total,
                      rows \ {reservation})

calculate_total_sales(table) == SumSales(0, table)

\* session.get('admin_logged_in')
LoggedIn(s) == s.admin_logged_in

LoggedOutSession == [admin_logged_in |-> FALSE, admin_username |-> ""]

\* a missing credential field (credentials are kept as whole strings)
NoText == [present |-> FALSE, text |-> ""]

\* not x, for a credential that is None or a string
Falsy(f) == ~f.present \/ f.text = ""

\* mutant: the query filters by username alone
FindAdminByName(table, username, password) ==
    {a \in table : username.present /\ a.username = username.text}

\* Admin.query.filter_by(username=username, password=password).first()
FindAdmin(table, username, password) ==
    {a \in table : /\ username.present /\ a.username = username.text
                   /\ password.present /\ a.password = password.text}

(****************************** inputs *************************************)
BookForm(first, last, row, col) ==
    [first_name |-> first, last_name |-> last, seat_row |-> row, seat_column |-> col]

Ann == Field(<<"A">>)
Lee == Field(<<"L">>)

\* the POST bodies sent to /reservation
BookForms ==
    { BookForm(Ann, Lee, Field(<<"0">>), Field(<<"0">>)),
      BookForm(Field(<<" ", "A">>), Field(<<"L", " ">>),
               Field(<<"1", "1">>), Field(<<" ", "3">>)),
      BookForm(Ann, Lee, Field(<<"1", "2">>), Field(<<"0">>)),
      BookForm(Ann, Lee, Field(<<"0">>), Field(<<"4">>)),
      BookForm(Ann, Lee, Field(<<"-", "1">>), Field(<<"3">>)),
      BookForm(Ann, Lee, Field(<<"x">>), Field(<<"0">>)),
      BookForm(Ann, Lee, NoField, Field(<<"0">>)),
      BookForm(Field(<<" ">>), Lee, Field(<<"0">>), Field(<<"0">>)),
      BookForm(Ann, NoField, Field(<<"1", "2">>), Field(<<"4">>)) }

LoginForm(username, password) == [username |-> username, password |-> password]

\* the POST bodies sent to /admin/login
LoginForms ==
    { LoginForm(Field("admin"), Field("admin123")),
      LoginForm(Field("admin"), Field("letmein")),
      LoginForm(Field("admin"), Field("")),
      LoginForm(Field("root"), Field("toor")),
      LoginForm(NoText, Field("admin123")) }

\* the ids sent to /admin/delete_reservation/<int:reservation_id>
ReservationIds == 1..MaxRowId

(************************** request workers ********************************)
\* req[p] is the request worker p handles: its position (pc), the locals it
\* carries from one database access to the next and, once answered
\* (pc = "done"), the request it answered and the result it returned.  The
\* rendered pages are left out: a page is a function of the values named here.
\* Only the latest answer is kept: an answer is dropped when the next one is
\* sent, so an answer on record always describes the current tables.
Idle == [op |-> "none", pc |-> "idle"]

Free(p) == req[p].pc \in {"idle", "done"}

\* a new request goes to the first free worker (the workers are alike)
Accepts(p) == Free(p) /\ \A q \in Procs : q < p => ~Free(q)

\* bookings that passed validation and have not answered yet
PendingBookings == {p \in Procs : req[p].pc \in {"check", "commit"}}

\* room for one more row below MaxRowId, whatever the pending bookings insert
RowIdsLeft ==
    MaxOf({r.id : r \in reservations} \cup {0}) + Cardinality(PendingBookings)
        < MaxRowId

\* worker p moves on inside its handler
Continue(p, r) == req' = [req EXCEPT ![p] = r]

\* worker p sends its answer
Respond(p, r) ==
    req' = [q \in Procs |-> IF q = p THEN r
                            ELSE IF req[q].pc = "done" THEN Idle ELSE req[q]]

(******************************* init_db ***********************************)
\* mutant: the default admin is added without counting the accounts
init_db_unconditional ==
    /\ ~booted
    /\ admins' = admins \cup {DefaultAdmin}
    /\ booted' = TRUE
    /\ UNCHANGED <<reservations, session, req>>

init_db ==
    /\ ~booted
    /\ admins' = IF Cardinality(admins) = 0 THEN admins \cup {DefaultAdmin}
                 ELSE admins
    /\ booted' = TRUE
    /\ UNCHANGED <<reservations, session, req>>

(**************************** make_reservation *****************************)
BookAnswer(form, result) ==
    [op |-> "make_reservation", pc |-> "done", method |-> "POST",
     form |-> form, result |-> result]

\* GET /reservation, lines 122-123 and 182-184: the seat map page
ReservationGet(p) ==
    /\ booted /\ Accepts(p)
    /\ Respond(p, [op |-> "make_reservation", pc |-> "done", method |-> "GET",
                   result |-> "SeatMap",
                   seating_chart |-> get_seating_chart(reservations)])
    /\ UNCHANGED <<reservations, admins, session, booted>>

\* mutant: the seat is parsed and range-checked before the names are looked at
ReservationPostSeatFirst(p, form) ==
    /\ booted /\ Accepts(p)
    /\ LET first_name == Strip(FormGetOr(form, "first_name", <<>>))
           last_name == Strip(FormGetOr(form, "last_name", <<>>))
           seat_row == IntOf(form.seat_row)
           seat_column == IntOf(form.seat_column)
       IN  IF ~seat_row.ok \/ ~seat_column.ok
           THEN Respond(p, BookAnswer(form, "InvalidSeat"))
           ELSE IF ~InRange(seat_row.val, seat_column.val)
           THEN Respond(p, BookAnswer(form, "InvalidSeat"))
           ELSE IF first_name = <<>> \/ last_name = <<>>
           THEN Respond(p, BookAnswer(form, "InvalidInput"))
           ELSE /\ RowIdsLeft
                /\ Continue(p, [op |-> "make_reservation", pc |-> "check",
                               method |-> "POST", form |-> form,
                               first_name |-> first_name, last_name |-> last_name,
                               seat_row |-> seat_row.val,
                               seat_column |-> seat_column.val])
    /\ UNCHANGED <<reservations, admins, session, booted>>

\* POST /reservation, lines 125-152: the form validation
ReservationPost(p, form) ==
    /\ booted /\ Accepts(p)
    /\ LET first_name == Strip(FormGetOr(form, "first_name", <<>>))
           last_name == Strip(FormGetOr(form, "last_name", <<>>))
           seat_row == IntOf(form.seat_row)
           seat_column == IntOf(form.seat_column)
       IN  IF first_name = <<>> \/ last_name = <<>>
           THEN Respond(p, BookAnswer(form, "InvalidInput"))
           ELSE IF ~seat_row.ok \/ ~seat_column.ok
           THEN Respond(p, BookAnswer(form, "InvalidSeat"))
           ELSE IF ~InRange(seat_row.val, seat_column.val)
           THEN Respond(p, BookAnswer(form, "InvalidSeat"))
           ELSE /\ RowIdsLeft
                /\ Continue(p, [op |-> "make_reservation", pc |-> "check",
                               method |-> "POST", form |-> form,
                               first_name |-> first_name, last_name |-> last_name,
                               seat_row |-> seat_row.val,
                               seat_column |-> seat_column.val])
    /\ UNCHANGED <<reservations, admins, session, booted>>

\* mutant: the handler waits for the seat to come free before it goes on
ReservationCheckWaiting(p) ==
    /\ req[p].pc = "check"
    /\ is_seat_available(reservations, req[p].seat_row, req[p].seat_column)
    /\ Continue(p, [req[p] EXCEPT !.pc = "commit"])
    /\ UNCHANGED <<reservations, admins, session, booted>>

\* lines 154-159: the availability query
ReservationCheck(p) ==
    /\ req[p].pc = "check"
    /\ IF ~is_seat_available(reservations, req[p].seat_row, req[p].seat_column)
       THEN Respond(p, BookAnswer(req[p].form, "SeatTaken"))
       ELSE Continue(p, [req[p] EXCEPT !.pc = "commit"])
    /\ UNCHANGED <<reservations, admins, session, booted>>

\* mutant: the insert replaces the rows already on the seat
ReservationCommitReplacing(p, eticket_number) ==
    /\ req[p].pc = "commit"
    /\ LET passenger_name == req[p].first_name \o <<" ">> \o req[p].last_name
           kept == {r \in reservations : ~(/\ r.seatRow = req[p].seat_row
                                            /\ r.seatColumn = req[p].seat_column)}
       IN  reservations' = kept \cup
               {NewReservation(NextRowId(reservations), passenger_name,
                               req[p].seat_row, req[p].seat_column,
                               eticket_number)}
    /\ Respond(p, BookAnswer(req[p].form, "Success"))
    /\ UNCHANGED <<admins, session, booted>>

\* lines 161-180: the insert, its commit and the confirmation page
ReservationCommit(p, eticket_number) ==
    /\ req[p].pc = "commit"
    /\ LET passenger_name == req[p].first_name \o <<" ">> \o req[p].last_name
       IN  reservations' = reservations \cup
               {NewReservation(NextRowId(reservations), passenger_name,
                               req[p].seat_row, req[p].seat_column,
                               eticket_number)}
    /\ Respond(p, BookAnswer(req[p].form, "Success"))
    /\ UNCHANGED <<admins, session, booted>>

(******************************* admin_login *******************************)
\* lines 192-200 and 218-226: what the dashboard shows (the three queries run
\* one after the other; they are taken as one read of the table)
Dashboard(table) ==
    [seating_chart |-> get_seating_chart(table),
     total_sales |-> calculate_total_sales(table),
     reservations |-> table]

LoginAnswer(caller, method, form, result) ==
    [op |-> "admin_login", pc |-> "done", caller |-> caller, method |-> method,
     form |-> form, result |-> result]

\* lines 196-200 and 222-226: the page with the dashboard on it
DashboardAnswer(caller, method, form, result, table) ==
    [op |-> "admin_login", pc |-> "done", caller |-> caller, method |-> method,
     form |-> form, result |-> result,
     seating_chart |-> Dashboard(table).seating_chart,
     total_sales |-> Dashboard(table).total_sales,
     reservations |-> Dashboard(table).reservations]

\* GET /admin/login
AdminLoginGet(p, caller) ==
    /\ booted /\ Accepts(p)
    /\ LET form == LoginForm(NoText, NoText)
       IN  IF LoggedIn(session[caller])
           THEN Respond(p, DashboardAnswer(caller, "GET", form, "Dashboard",
                                        reservations))
           ELSE Respond(p, LoginAnswer(caller, "GET", form, "LoginForm"))
    /\ UNCHANGED <<reservations, admins, session, booted>>

\* mutant: any credentials that are not empty open a session
AdminLoginPostUnchecked(p, caller, form) ==
    /\ booted /\ Accepts(p)
    /\ IF LoggedIn(session[caller])
       THEN /\ Respond(p, DashboardAnswer(caller, "POST", form, "Dashboard",
                                        reservations))
            /\ UNCHANGED session
       ELSE IF Falsy(form.username) \/ Falsy(form.password)
       THEN /\ Respond(p, LoginAnswer(caller, "POST", form, "AuthFailure"))
            /\ UNCHANGED session
       ELSE /\ session' = [session EXCEPT ![caller] =
                              [admin_logged_in |-> TRUE,
                               admin_username |-> form.username.text]]
            /\ Respond(p, DashboardAnswer(caller, "POST", form, "LoggedIn",
                                        reservations))
    /\ UNCHANGED <<reservations, admins, booted>>

\* mutant: the flag is a global of the process, not a key of the caller's session
AdminLoginPostGlobal(p, caller, form) ==
    /\ booted /\ Accepts(p)
    /\ IF LoggedIn(session[caller])
       THEN /\ Respond(p, DashboardAnswer(caller, "POST", form, "Dashboard",
                                        reservations))
            /\ UNCHANGED session
       ELSE IF Falsy(form.username) \/ Falsy(form.password)
       THEN /\ Respond(p, LoginAnswer(caller, "POST", form, "AuthFailure"))
            /\ UNCHANGED session
       ELSE IF FindAdmin(admins, form.username, form.password) # {}
       THEN /\ session' = [c \in Callers |->
                              [admin_logged_in |-> TRUE,
                               admin_username |-> form.username.text]]
            /\ Respond(p, DashboardAnswer(caller, "POST", form, "LoggedIn",
                                        reservations))
       ELSE /\ Respond(p, LoginAnswer(caller, "POST", form, "AuthFailure"))
            /\ UNCHANGED session
    /\ UNCHANGED <<reservations, admins, booted>>

\* POST /admin/login
AdminLoginPost(p, caller, form) ==
    /\ booted /\ Accepts(p)
    /\ IF LoggedIn(session[caller])
       THEN /\ Respond(p, DashboardAnswer(caller, "POST", form, "Dashboard",
                                        reservations))
            /\ UNCHANGED session
       ELSE IF Falsy(form.username) \/ Falsy(form.password)
       THEN /\ Respond(p, LoginAnswer(caller, "POST", form, "AuthFailure"))
            /\ UNCHANGED session
       ELSE IF FindAdmin(admins, form.username, form.password) # {}
       THEN /\ session' = [session EXCEPT ![caller] =
                              [admin_logged_in |-> TRUE,
                               admin_username |-> form.username.text]]
            /\ Respond(p, DashboardAnswer(caller, "POST", form, "LoggedIn",
                                        reservations))
       ELSE /\ Respond(p, LoginAnswer(caller, "POST", form, "AuthFailure"))
            /\ UNCHANGED session
    /\ UNCHANGED <<reservations, admins, booted>>

(****************************** admin_logout *******************************)
\* mutant: only admin_username is popped
admin_logout_keeps_flag(p, caller) ==
    /\ booted /\ Accepts(p)
    /\ session' = [session EXCEPT ![caller].admin_username = ""]
    /\ Respond(p, [op |-> "admin_logout", pc |-> "done", caller |-> caller,
                   result |-> "LoggedOut"])
    /\ UNCHANGED <<reservations, admins, booted>>

admin_logout(p, caller) ==
    /\ booted /\ Accepts(p)
    /\ session' = [session EXCEPT ![caller] = LoggedOutSession]
    /\ Respond(p, [op |-> "admin_logout", pc |-> "done", caller |-> caller,
                   result |-> "LoggedOut"])
    /\ UNCHANGED <<reservations, admins, booted>>

(*************************** delete_reservation ****************************)
DeleteAnswer(caller, reservation_id, result) ==
    [op |-> "delete_reservation", pc |-> "done", caller |-> caller,
     reservation_id |-> reservation_id, result |-> result]

\* mutant: the handler without its session gate
DeleteRequestUngated(p, caller, reservation_id) ==
    /\ booted /\ Accepts(p)
    /\ IF ~ \E r \in reservations : r.id = reservation_id
       THEN Respond(p, DeleteAnswer(caller, reservation_id, "NotFound"))
       ELSE Continue(p, [op |-> "delete_reservation", pc |-> "delete",
                        caller |-> caller, reservation_id |-> reservation_id])
    /\ UNCHANGED <<reservations, admins, session, booted>>

\* lines 244-247: the gate, then get_or_404
DeleteRequest(p, caller, reservation_id) ==
    /\ booted /\ Accepts(p)
    /\ IF ~LoggedIn(session[caller])
       THEN Respond(p, DeleteAnswer(caller, reservation_id, "Unauthorized"))
       ELSE IF ~ \E r \in reservations : r.id = reservation_id
       THEN Respond(p, DeleteAnswer(caller, reservation_id, "NotFound"))
       ELSE Continue(p, [op |-> "delete_reservation", pc |-> "delete",
                        caller |-> caller, reservation_id |-> reservation_id])
    /\ UNCHANGED <<reservations, admins, session, booted>>

\* mutant: the DELETE has no WHERE clause
DeleteCommitAll(p) ==
    /\ req[p].pc = "delete"
    /\ reservations' = {}
    /\ Respond(p, DeleteAnswer(req[p].caller, req[p].reservation_id, "Deleted"))
    /\ UNCHANGED <<admins, session, booted>>

\* mutant: the DELETE is flushed but never committed
DeleteCommitRolledBack(p) ==
    /\ req[p].pc = "delete"
    /\ reservations' = reservations
    /\ Respond(p, DeleteAnswer(req[p].caller, req[p].reservation_id, "Deleted"))
    /\ UNCHANGED <<admins, session, booted>>

\* lines 248-252: DELETE ... WHERE id = ?, committed
DeleteCommit(p) ==
    /\ req[p].pc = "delete"
    /\ reservations' = {r \in reservations : r.id # req[p].reservation_id}
    /\ Respond(p, DeleteAnswer(req[p].caller, req[p].reservation_id, "Deleted"))
    /\ UNCHANGED <<admins, session, booted>>

(****************************** specification ******************************)
Init ==
    /\ reservations = {}
    /\ admins \in {{}, {DefaultAdmin}}
    /\ session = [c \in Callers |-> LoggedOutSession]
    /\ booted = FALSE
    /\ req = [p \in Procs |-> Idle]

Next ==
    \/ init_db
    \/ \E p \in Procs : ReservationGet(p)
    \/ \E p \in Procs, form \in BookForms : ReservationPost(p, form)
    \/ \E p \in Procs : ReservationCheck(p)
    \/ \E p \in Procs, t \in Tokens : ReservationCommit(p, t)
    \/ \E p \in Procs, c \in Callers : AdminLoginGet(p, c)
    \/ \E p \in Procs, c \in Callers, form \in LoginForms : AdminLoginPost(p, c, form)
    \/ \E p \in Procs, c \in Callers : admin_logout(p, c)
    \/ \E p \in Procs, c \in Callers, id \in ReservationIds : DeleteRequest(p, c, id)
    \/ \E p \in Procs : DeleteCommit(p)

Spec == Init /\ [][Next]_vars

(***************************************************************************)
(* Vocabulary of the properties                                            *)
(***************************************************************************)
\* the store holds a reservation with seat (row, col)
Reserved(row, col) ==
    \E r \in reservations : r.seatRow = row /\ r.seatColumn = col

ReservedNext(row, col) ==
    \E r \in reservations' : r.seatRow = row /\ r.seatColumn = col

\* worker p holds the latest answer, to a request of handler op
Answered(p, op) == req[p].pc = "done" /\ req[p].op = op

BookAnswered(p) == Answered(p, "make_reservation") /\ req[p].method = "POST"

\* in this step worker p received a new request of handler op
Received(p, op) ==
    /\ req[p].pc \in {"idle", "done"}
    /\ req'[p] # req[p]
    /\ req'[p].op = op

\* in this step worker p, somewhere inside its handler at pc, moved on
Stepped(p, pc) == req[p].pc = pc /\ req'[p] # req[p]

\* what a booking form asks for: names that are not blank, and the seat
NamesGiven(form) ==
    /\ form.first_name.present /\ Strip(form.first_name.text) # <<>>
    /\ form.last_name.present /\ Strip(form.last_name.text) # <<>>

SeatGiven(form) == IntOf(form.seat_row).ok /\ IntOf(form.seat_column).ok

FormRow(form) == IntOf(form.seat_row).val

FormCol(form) == IntOf(form.seat_column).val

SeatInRange(form) ==
    /\ SeatGiven(form)
    /\ FormRow(form) \in 0..11
    /\ FormCol(form) \in 0..3

(***************************************************************************)
(* C1: in every reachable state the reservation store holds at most one    *)
(* reservation for each (row, column) pair.                                *)
(***************************************************************************)
C1_OneReservationPerSeat ==
    \A r1, r2 \in reservations :
        (r1.seatRow = r2.seatRow /\ r1.seatColumn = r2.seatColumn) => r1 = r2

(***************************************************************************)
(* C2: when every worker runs one booking request with valid names for the *)
(* same in-range seat, the seat being free at the start and no delete      *)
(* running, then once all have answered exactly one of them has succeeded  *)
(* and the others have ended in SeatTaken.  Under SpecRace every request   *)
(* answers Success or SeatTaken, and a Success is a row added to the       *)
(* table, so the successes are the rows of the table.                      *)
(***************************************************************************)
RaceForms == {f \in BookForms : NamesGiven(f) /\ SeatInRange(f)}

RaceRequest(form) ==
    [op |-> "make_reservation", pc |-> "check", method |-> "POST",
     form |-> form, first_name |-> Strip(form.first_name.text),
     last_name |-> Strip(form.last_name.text),
     seat_row |-> FormRow(form), seat_column |-> FormCol(form)]

\* every worker has passed the validation of a booking for one and the same
\* seat; the table is empty, so the seat is free
InitRace ==
    /\ reservations = {}
    /\ admins = {DefaultAdmin}
    /\ session \in [Callers -> {LoggedOutSession,
                                [admin_logged_in |-> TRUE,
                                 admin_username |-> "admin"]}]
    /\ booted = TRUE
    /\ \E f \in RaceForms : req = [p \in Procs |-> RaceRequest(f)]

NextRace ==
    \/ \E p \in Procs : ReservationCheck(p)
    \/ \E p \in Procs, t \in Tokens : ReservationCommit(p, t)

SpecRace == InitRace /\ [][NextRace]_vars

AllAnswered == \A p \in Procs : req[p].pc \in {"idle", "done"}

\* the requests that ended in success: each added one row to the empty table
Successes == Cardinality(reservations)

C2_ExactlyOneWinner == AllAnswered => Successes = 1

(***************************************************************************)
(* C3: once a booking of an in-range seat has succeeded the seat is        *)
(* reserved, and it stays reserved until a delete removes its reservation; *)
(* while it is reserved every seat-map read shows it as X and every        *)
(* booking request that reaches its availability query for that seat ends  *)
(* in SeatTaken and adds no record.                                        *)
(***************************************************************************)
BookingSucceeds(p) ==
    /\ req'[p] # req[p]
    /\ req'[p].pc = "done" /\ req'[p].op = "make_reservation"
    /\ req'[p].method = "POST" /\ req'[p].result = "Success"

\* every seat-map read shows the reserved seats as X: the function every
\* read computes, and the seat map page on record (it describes the current
\* table)
C3_SeatMap ==
    LET chart == get_seating_chart(reservations)
    IN  \A r \in reservations :
            (r.seatRow \in 0..11 /\ r.seatColumn \in 0..3) =>
                /\ chart[r.seatRow][r.seatColumn + 1] = "X"
                /\ \A p \in Procs :
                       (Answered(p, "make_reservation") /\ req[p].method = "GET")
                           => req[p].seating_chart[r.seatRow][r.seatColumn + 1] = "X"

C3_Step ==
    /\ \A p \in Procs : BookingSucceeds(p) =>
           ReservedNext(FormRow(req'[p].form), FormCol(req'[p].form))
    /\ \A r \in reservations :
           ~ReservedNext(r.seatRow, r.seatColumn) =>
               \E p \in Procs : Stepped(p, "delete")
    /\ \A p \in Procs :
           (Stepped(p, "check")
              /\ Reserved(FormRow(req[p].form), FormCol(req[p].form))) =>
               /\ req'[p].pc = "done" /\ req'[p].result = "SeatTaken"
               /\ reservations' = reservations

C3_ReservedUntilDeleted == []C3_SeatMap /\ [][C3_Step]_vars

\* a booking of a reserved seat has just ended in SeatTaken
C3_Witness ==
    \E p \in Procs :
        /\ BookAnswered(p) /\ req[p].result = "SeatTaken"
        /\ Reserved(FormRow(req[p].form), FormCol(req[p].form))
        /\ get_seating_chart(reservations)
               [FormRow(req[p].form)][FormCol(req[p].form) + 1] = "X"

(***************************************************************************)
(* C4: a booking request with names that are not blank and a seat whose    *)
(* row is outside [0,12) or whose column is outside [0,4) ends in          *)
(* InvalidSeat and leaves the store unchanged; one with such names and an  *)
(* in-range seat passes validation, and when its availability query finds  *)
(* the seat free it succeeds and adds exactly one record, with that seat.  *)
(***************************************************************************)
SeatOutOfRange(form) ==
    SeatGiven(form) /\ ~(FormRow(form) \in 0..11 /\ FormCol(form) \in 0..3)

BookReceived(p) ==
    Received(p, "make_reservation") /\ req'[p].method = "POST"

C4_Step ==
    \A p \in Procs :
        /\ (BookReceived(p) /\ NamesGiven(req'[p].form)
              /\ SeatOutOfRange(req'[p].form)) =>
               /\ req'[p].pc = "done" /\ req'[p].result = "InvalidSeat"
               /\ reservations' = reservations
        /\ (BookReceived(p) /\ NamesGiven(req'[p].form)
              /\ SeatInRange(req'[p].form)) =>
               req'[p].pc = "check"
        /\ (Stepped(p, "check")
              /\ ~Reserved(FormRow(req[p].form), FormCol(req[p].form))) =>
               req'[p].pc = "commit" /\ reservations' = reservations
        /\ Stepped(p, "commit") =>
               /\ req'[p].pc = "done" /\ req'[p].result = "Success"
               /\ \E r \in reservations' \ reservations :
                      /\ r.seatRow = FormRow(req[p].form)
                      /\ r.seatColumn = FormCol(req[p].form)
                      /\ reservations' = reservations \cup {r}
               /\ Cardinality(reservations') = Cardinality(reservations) + 1

C4_SeatRange == [][C4_Step]_vars

\* seat (11,3) is booked and a request for row 12 has just ended in InvalidSeat
C4_Witness ==
    \E p \in Procs :
        /\ BookAnswered(p) /\ req[p].result = "InvalidSeat"
        /\ NamesGiven(req[p].form) /\ SeatGiven(req[p].form)
        /\ FormRow(req[p].form) = 12
        /\ Reserved(11, 3)

(***************************************************************************)
(* C5: a delete request received while its caller's session is LoggedOut   *)
(* is answered Unauthorized and leaves the store unchanged, whatever the   *)
(* id and whether or not a reservation has it.                             *)
(***************************************************************************)
C5_Step ==
    \A p \in Procs :
        (Received(p, "delete_reservation")
           /\ ~session[req'[p].caller].admin_logged_in) =>
            /\ req'[p].pc = "done" /\ req'[p].result = "Unauthorized"
            /\ reservations' = reservations

C5_LoggedOutCannotDelete == [][C5_Step]_vars

\* a logged-out delete of an existing reservation was refused; the row is there
C5_Witness ==
    \E p \in Procs :
        /\ Answered(p, "delete_reservation") /\ req[p].result = "Unauthorized"
        /\ ~session[req[p].caller].admin_logged_in
        /\ \E r \in reservations : r.id = req[p].reservation_id

(***************************************************************************)
(* C6: when a logged-in admin's delete of an existing reservation on seat  *)
(* (r,c) succeeds, the seat map read next shows (r,c) as O and the         *)
(* dashboard's reservation list no longer holds the deleted reservation.   *)
(***************************************************************************)
DeleteSucceeds(p) == Stepped(p, "delete") /\ req'[p].result = "Deleted"

C6_Step ==
    \A p \in Procs : DeleteSucceeds(p) =>
        \A r \in reservations \ reservations' :
            /\ get_seating_chart(reservations')[r.seatRow][r.seatColumn + 1] = "O"
            /\ r \notin Dashboard(reservations').reservations

C6_DeleteFreesSeat == [][C6_Step]_vars

(***************************************************************************)
(* C7, as claimed: a login request, whatever the session state it is made  *)
(* in, returns the logged-in dashboard and leaves the session LoggedIn if  *)
(* and only if an admin account matches the submitted username and         *)
(* password, and is answered AuthFailure otherwise.                        *)
(***************************************************************************)
CredentialsMatch(form) ==
    /\ form.username.present /\ form.password.present
    /\ \E a \in admins : /\ a.username = form.username.text
                         /\ a.password = form.password.text

LoginAnswered(p) == Answered(p, "admin_login") /\ req[p].method = "POST"

C7_LoginIffMatch ==
    \A p \in Procs : LoginAnswered(p) =>
        /\ (req[p].result \in {"LoggedIn", "Dashboard"}
              /\ session[req[p].caller].admin_logged_in)
           <=> CredentialsMatch(req[p].form)
        /\ ~CredentialsMatch(req[p].form) => req[p].result = "AuthFailure"

(***************************************************************************)
(* C7, amended: a login request made while the caller's session is         *)
(* LoggedOut returns the logged-in dashboard and leaves the session        *)
(* LoggedIn if and only if an admin account matches the submitted username *)
(* and password, and otherwise is answered AuthFailure without a session;  *)
(* a login request made while the session is LoggedIn returns the          *)
(* dashboard and leaves the session as it is, whatever it submits.         *)
(***************************************************************************)
LoginReceived(p) == Received(p, "admin_login") /\ req'[p].method = "POST"

C7_Step ==
    \A p \in Procs : LoginReceived(p) =>
        LET c == req'[p].caller
            form == req'[p].form
        IN  IF session[c].admin_logged_in
            THEN req'[p].result = "Dashboard" /\ session' = session
            ELSE /\ CredentialsMatch(form) =>
                        /\ req'[p].result = "LoggedIn"
                        /\ session'[c].admin_logged_in
                        /\ \A d \in Callers \ {c} : session'[d] = session[d]
                 /\ ~CredentialsMatch(form) =>
                        req'[p].result = "AuthFailure" /\ session' = session

C7_LoginWhenLoggedOut == [][C7_Step]_vars

\* the bootstrap account has just logged in
C7_Witness ==
    \E p \in Procs :
        /\ LoginAnswered(p) /\ req[p].result = "LoggedIn"
        /\ req[p].form = LoginForm(Field("admin"), Field("admin123"))
        /\ session[req[p].caller].admin_logged_in

(***************************************************************************)
(* C8: logout leaves its caller's session LoggedOut whatever it was and    *)
(* does not change the store; a LoggedOut session stays so until a login   *)
(* of that caller succeeds; and while it is LoggedOut every delete request *)
(* of the caller is answered Unauthorized and none of its requests gets    *)
(* the dashboard.                                                          *)
(***************************************************************************)
C8_Step ==
    /\ \A p \in Procs : Received(p, "admin_logout") =>
           /\ ~session'[req'[p].caller].admin_logged_in
           /\ reservations' = reservations
    /\ \A c \in Callers :
           (~session[c].admin_logged_in /\ session'[c].admin_logged_in) =>
               \E p \in Procs : /\ LoginReceived(p) /\ req'[p].caller = c
                                /\ req'[p].result = "LoggedIn"
    /\ \A p \in Procs :
           (Received(p, "delete_reservation")
              /\ ~session[req'[p].caller].admin_logged_in) =>
               /\ req'[p].pc = "done" /\ req'[p].result = "Unauthorized"
               /\ reservations' = reservations
    /\ \A p \in Procs :
           (Received(p, "admin_login")
              /\ ~session[req'[p].caller].admin_logged_in) =>
               req'[p].result \in {"LoginForm", "AuthFailure", "LoggedIn"}

C8_LogoutLocksOut == [][C8_Step]_vars

\* reservation 1 was deleted by an admin, and every admin has since logged out
C8_Witness ==
    \E p \in Procs :
        /\ Answered(p, "admin_logout")
        /\ \A c \in Callers : ~session[c].admin_logged_in
        /\ reservations # {}
        /\ \A r \in reservations : r.id # 1

(***************************************************************************)
(* C9: the dashboard is returned, and a delete is let through to the       *)
(* table, only for a caller whose session is LoggedIn when the request is  *)
(* received; no row leaves the table but by such a delete; and a session   *)
(* becomes LoggedIn only by a login request of its caller whose username   *)
(* and password match an admin account (every session starts LoggedOut).   *)
(***************************************************************************)
C9_Step ==
    /\ \A p \in Procs :
           (Received(p, "admin_login")
              /\ req'[p].result \in {"Dashboard", "LoggedIn"}) =>
               session'[req'[p].caller].admin_logged_in
    /\ \A p \in Procs :
           (Received(p, "delete_reservation") /\ req'[p].pc = "delete") =>
               session[req'[p].caller].admin_logged_in
    /\ ~(reservations \subseteq reservations') =>
           \E p \in Procs : Stepped(p, "delete")
    /\ \A p \in Procs : req'[p].pc = "delete" =>
           (req[p].pc = "delete" \/ Received(p, "delete_reservation"))
    /\ \A c \in Callers :
           (~session[c].admin_logged_in /\ session'[c].admin_logged_in) =>
               \E p \in Procs : /\ LoginReceived(p) /\ req'[p].caller = c
                                /\ CredentialsMatch(req'[p].form)

C9_AdminOnlyWhenLoggedIn ==
    /\ \A c \in Callers : ~session[c].admin_logged_in
    /\ [][C9_Step]_vars

\* one caller has the dashboard of a table with a row; the other is LoggedOut
C9_Witness ==
    \E p \in Procs :
        /\ Answered(p, "admin_login") /\ req[p].result = "Dashboard"
        /\ session[req[p].caller].admin_logged_in
        /\ \E c \in Callers : ~session[c].admin_logged_in
        /\ reservations # {}

(***************************************************************************)
(* C10: a delete request of a LoggedIn caller for an id no reservation has *)
(* is answered NotFound and changes neither the store nor any session; one *)
(* for an id a reservation has goes on to the DELETE, which removes the    *)
(* row with that id and no other row.                                      *)
(***************************************************************************)
C10_Step ==
    \A p \in Procs :
        /\ (Received(p, "delete_reservation")
              /\ session[req'[p].caller].admin_logged_in) =>
               IF \E r \in reservations : r.id = req'[p].reservation_id
               THEN req'[p].pc = "delete"
               ELSE req'[p].pc = "done" /\ req'[p].result = "NotFound"
        /\ Received(p, "delete_reservation") =>
               reservations' = reservations /\ session' = session
        /\ Stepped(p, "delete") =>
               /\ req'[p].pc = "done" /\ req'[p].result = "Deleted"
               /\ reservations' \subseteq reservations
               /\ \A r \in reservations :
                      r \in reservations' <=> r.id # req[p].reservation_id
               /\ session' = session

C10_DeleteById == [][C10_Step]_vars

\* a delete has just removed its row and left another row in the table
C10_Witness ==
    \E p \in Procs :
        /\ Answered(p, "delete_reservation") /\ req[p].result = "Deleted"
        /\ reservations # {}
        /\ \A r \in reservations : r.id # req[p].reservation_id
(***************************************************************************)
(* Reads of a stored table.  get_seating_chart and calculate_total_sales    *)
(* take whatever rows the table holds, so they are run on tables that also *)
(* hold rows no booking can have written: seats outside the cabin, and two *)
(* rows on one seat.                                                       *)
(***************************************************************************)
Stored(id, seatRow, seatColumn) ==
    NewReservation(id, <<"A", " ", "L">>, seatRow, seatColumn, "0A1B2C3D4E5F")

StoredRows ==
    { Stored(1, 0, 0), Stored(2, 5, 3), Stored(3, 0, 1), Stored(4, 0, 2),
      Stored(5, 0, 0), Stored(6, 11, 3), Stored(7, 12, 0), Stored(8, 0, 4),
      Stored(9, -1, 2) }

InitRead ==
    /\ reservations \in SUBSET StoredRows
    /\ admins = {DefaultAdmin}
    /\ session = [c \in Callers |->
                     IF c = "alice"
                     THEN [admin_logged_in |-> TRUE, admin_username |-> "admin"]
                     ELSE LoggedOutSession]
    /\ booted = TRUE
    /\ req = [p \in Procs |-> Idle]

NextRead ==
    \/ \E p \in Procs : ReservationGet(p)
    \/ \E p \in Procs, c \in Callers : AdminLoginGet(p, c)

SpecRead == InitRead /\ [][NextRead]_vars

\* worker p holds the latest answer, and it is a page with the dashboard
DashboardAnswered(p) ==
    Answered(p, "admin_login") /\ req[p].result \in {"Dashboard", "LoggedIn"}

\* worker p holds the latest answer, and it is the seat map page
SeatMapAnswered(p) == Answered(p, "make_reservation") /\ req[p].method = "GET"

\* the rows of a table whose seat is inside the 12 x 4 cabin
InCabin(table) ==
    {r \in table : r.seatRow \in 0..11 /\ r.seatColumn \in 0..3}

(***************************************************************************)
(* C11: the total sales of a table is the sum, over its rows with a seat   *)
(* inside the cabin, of the seat price: 100 in columns 0 and 3, 75 in      *)
(* column 1, 50 in column 2, in every row; rows outside the cabin add      *)
(* nothing.  Rows at (0,0) and (5,3) total 200, one at (0,1) totals 75,    *)
(* one at (0,2) totals 50, the empty table totals 0.  The dashboard shows  *)
(* that total.                                                             *)
(***************************************************************************)
SoldInColumn(table, col) ==
    Cardinality({r \in InCabin(table) : r.seatColumn = col})

PriceSum(table) ==
    100 * SoldInColumn(table, 0) + 75 * SoldInColumn(table, 1)
        + 50 * SoldInColumn(table, 2) + 100 * SoldInColumn(table, 3)

C11_TotalSales ==
    /\ calculate_total_sales(reservations) = PriceSum(reservations)
    /\ \A p \in Procs :
           DashboardAnswered(p) => req[p].total_sales = PriceSum(reservations)
    /\ reservations = {Stored(1, 0, 0), Stored(2, 5, 3)} =>
           calculate_total_sales(reservations) = 200
    /\ reservations = {Stored(3, 0, 1)} => calculate_total_sales(reservations) = 75
    /\ reservations = {Stored(4, 0, 2)} => calculate_total_sales(reservations) = 50
    /\ reservations = {} => calculate_total_sales(reservations) = 0

\* the dashboard shows 200 for rows at (0,0), (5,3) and, outside the cabin, (12,0)
C11_Witness ==
    \E p \in Procs :
        /\ DashboardAnswered(p) /\ req[p].total_sales = 200
        /\ reservations = {Stored(1, 0, 0), Stored(2, 5, 3), Stored(7, 12, 0)}

(***************************************************************************)
(* C12: a seat-map read of any stored table returns a grid of 12 rows of 4 *)
(* cells, each O or X, in which cell (r,c) is X if and only if the table   *)
(* holds a row with seat (r,c); a row whose seat is outside the cabin      *)
(* marks no cell, and the read still returns its grid.                     *)
(***************************************************************************)
IsSeatGrid(chart) ==
    /\ DOMAIN chart = 0..11
    /\ \A r \in 0..11 :
           /\ DOMAIN chart[r] = 1..4
           /\ \A c \in 0..3 : chart[r][c + 1] \in {"O", "X"}

ShowsStore(chart) ==
    \A r \in 0..11, c \in 0..3 : chart[r][c + 1] = "X" <=> Reserved(r, c)

C12_SeatMapIsStore ==
    /\ IsSeatGrid(get_seating_chart(reservations))
    /\ ShowsStore(get_seating_chart(reservations))
    /\ \A p \in Procs :
           SeatMapAnswered(p) =>
               IsSeatGrid(req[p].seating_chart) /\ ShowsStore(req[p].seating_chart)

\* the seat map page of a table with rows at (0,0), (12,0) and (0,4): one X
C12_Witness ==
    \E p \in Procs :
        /\ SeatMapAnswered(p)
        /\ reservations = {Stored(1, 0, 0), Stored(7, 12, 0), Stored(8, 0, 4)}
        /\ req[p].seating_chart[0][1] = "X"
        /\ \A r \in 0..11, c \in 0..3 :
               req[p].seating_chart[r][c + 1] = "X" => (r = 0 /\ c = 0)

(***************************************************************************)
(* C13: in every reachable state no two reservations of the store have the *)
(* same e-ticket number.                                                   *)
(***************************************************************************)
C13_UniqueETickets ==
    \A r1, r2 \in reservations :
        r1.eTicketNumber = r2.eTicketNumber => r1 = r2

(***************************************************************************)
(* C14: the booking checks run in the order names, seat range, seat        *)
(* availability.  A booking request with a blank first or last name is     *)
(* answered InvalidInput whatever seat it names and whether or not that    *)
(* seat is reserved; one with names and a seat outside the cabin is        *)
(* answered InvalidSeat; SeatTaken is answered only to a request with      *)
(* names and a seat inside the cabin.  A booking request ends with one of  *)
(* Success, InvalidInput, InvalidSeat, SeatTaken, and a row is added only  *)
(* by the step that answers Success.                                       *)
(***************************************************************************)
BookingEnds(p) ==
    /\ req'[p] # req[p]
    /\ req'[p].pc = "done" /\ req'[p].op = "make_reservation"
    /\ req'[p].method = "POST"

C14_Step ==
    /\ \A p \in Procs :
           (BookReceived(p) /\ ~NamesGiven(req'[p].form)) =>
               req'[p].pc = "done" /\ req'[p].result = "InvalidInput"
    /\ \A p \in Procs :
           (BookReceived(p) /\ NamesGiven(req'[p].form)
              /\ SeatOutOfRange(req'[p].form)) =>
               req'[p].pc = "done" /\ req'[p].result = "InvalidSeat"
    /\ \A p \in Procs :
           (BookingEnds(p) /\ req'[p].result = "SeatTaken") =>
               /\ NamesGiven(req'[p].form) /\ SeatInRange(req'[p].form)
               /\ req[p].pc = "check"
    /\ \A p \in Procs :
           BookingEnds(p) =>
               /\ req'[p].result \in
                      {"Success", "InvalidInput", "InvalidSeat", "SeatTaken"}
               /\ req'[p].result # "Success" => reservations' = reservations
    /\ \A p \in Procs :
           (req[p].pc \in {"check", "commit"} /\ req'[p] # req[p]) =>
               \/ BookingEnds(p)
               \/ req[p].pc = "check" /\ req'[p] = [req[p] EXCEPT !.pc = "commit"]
    /\ ~(reservations' \subseteq reservations) =>
           \E p \in Procs : BookingEnds(p) /\ req'[p].result = "Success"

C14_ValidationOrder == [][C14_Step]_vars

\* a request with a blank first name for the reserved seat (0,0): InvalidInput
C14_Witness ==
    \E p \in Procs :
        /\ BookAnswered(p) /\ req[p].result = "InvalidInput"
        /\ ~NamesGiven(req[p].form) /\ SeatInRange(req[p].form)
        /\ Reserved(FormRow(req[p].form), FormCol(req[p].form))

(***************************************************************************)
(* C15: a reservation row stays in the table with its id, passenger name,  *)
(* seat and e-ticket number as they were written until a delete removes    *)
(* it.  A row leaves the table only in the DELETE step of a delete request *)
(* for its id, and a delete request gets to that step only if its caller's *)
(* session was LoggedIn when the request was received.  No booking, login, *)
(* logout, seat-map read or dashboard read changes or removes a row.  No   *)
(* two rows of the table have the same id.                                 *)
(***************************************************************************)
UniqueIds == \A r1, r2 \in reservations : r1.id = r2.id => r1 = r2

C15_Step ==
    /\ \A r \in reservations :
           r \notin reservations' =>
               \E p \in Procs : /\ Stepped(p, "delete")
                                /\ req[p].reservation_id = r.id
                                /\ req'[p].result = "Deleted"
    /\ \A r \in reservations, r2 \in reservations' : r2.id = r.id => r2 = r
    /\ \A p \in Procs :
           req'[p].pc = "delete" =>
               \/ req'[p] = req[p]
               \/ /\ Received(p, "delete_reservation")
                  /\ session[req'[p].caller].admin_logged_in
    /\ \A p \in Procs :
           (\/ Received(p, "make_reservation") \/ Received(p, "admin_login")
            \/ Received(p, "admin_logout")
            \/ Stepped(p, "check") \/ Stepped(p, "commit")) =>
               reservations \subseteq reservations'

C15_RecordsImmutable == []UniqueIds /\ [][C15_Step]_vars

\* the row written first, on (0,0), is there as written after a login and a
\* second booking, of (11,3)
C15_Witness ==
    \E p \in Procs :
        /\ BookAnswered(p) /\ req[p].result = "Success"
        /\ FormRow(req[p].form) = 11 /\ FormCol(req[p].form) = 3
        /\ \E c \in Callers : session[c].admin_logged_in
        /\ \E r \in reservations :
               /\ r.id = 1 /\ r.seatRow = 0 /\ r.seatColumn = 0
               /\ r.passengerName = <<"A", " ", "L">>
        /\ \E r \in reservations : r.id = 2 /\ r.seatRow = 11

(***************************************************************************)
(* C16: the admin session is per caller.  A login or logout request of one *)
(* caller leaves the session of every other caller as it was, and a        *)
(* session changes only in a login or logout request of its own caller.    *)
(* So a caller whose session is LoggedOut gets the dashboard only by a     *)
(* matching login of its own and has its delete requests refused with the  *)
(* store unchanged, whoever else is LoggedIn; and a logout logs out its    *)
(* caller only.                                                            *)
(***************************************************************************)
SessionRequest(p) == Received(p, "admin_login") \/ Received(p, "admin_logout")

C16_Step ==
    /\ \A p \in Procs :
           SessionRequest(p) =>
               \A d \in Callers \ {req'[p].caller} : session'[d] = session[d]
    /\ \A c \in Callers :
           session'[c] # session[c] =>
               \E p \in Procs : SessionRequest(p) /\ req'[p].caller = c
    /\ \A p \in Procs :
           (Received(p, "admin_login") /\ ~session[req'[p].caller].admin_logged_in
              /\ req'[p].result \in {"Dashboard", "LoggedIn"}) =>
               /\ req'[p].method = "POST" /\ CredentialsMatch(req'[p].form)
               /\ session'[req'[p].caller].admin_logged_in
    /\ \A p \in Procs :
           (Received(p, "delete_reservation")
              /\ ~session[req'[p].caller].admin_logged_in) =>
               /\ req'[p].pc = "done" /\ req'[p].result = "Unauthorized"
               /\ reservations' = reservations

C16_SessionPerCaller == [][C16_Step]_vars

\* a LoggedOut caller's delete of an existing row was refused while the other
\* caller is LoggedIn
C16_Witness ==
    \E p \in Procs :
        /\ Answered(p, "delete_reservation") /\ req[p].result = "Unauthorized"
        /\ ~session[req[p].caller].admin_logged_in
        /\ \E d \in Callers \ {req[p].caller} : session[d].admin_logged_in
        /\ \E r \in reservations : r.id = req[p].reservation_id

(***************************************************************************)
(* One delete against one booking.  Seat s holds one row, the only row of  *)
(* the table; one worker runs an admin's delete of that row and has found  *)
(* it (line 247), the other runs a booking of s and has passed validation. *)
(* What is left of the two handlers are their accesses to the table: the   *)
(* availability query, the INSERT and the DELETE, in every order.  (A      *)
(* booking that queries before line 247 runs finds the row as well.)       *)
(***************************************************************************)
Seated(form, eticket_number) ==
    NewReservation(1, <<"Z", " ", "Q">>, FormRow(form), FormCol(form),
                   eticket_number)

DeleteOf(caller, row) ==
    [op |-> "delete_reservation", pc |-> "delete", caller |-> caller,
     reservation_id |-> row.id]

InitDeleteBook ==
    /\ \E f \in RaceForms, t \in Tokens, c \in Callers, deleter \in Procs :
           /\ reservations = {Seated(f, t)}
           /\ req = [p \in Procs |-> IF p = deleter
                                      THEN DeleteOf(c, Seated(f, t))
                                      ELSE RaceRequest(f)]
    /\ admins = {DefaultAdmin}
    /\ session \in [Callers -> {LoggedOutSession,
                                [admin_logged_in |-> TRUE,
                                 admin_username |-> "admin"]}]
    /\ booted = TRUE

NextDeleteBook ==
    \/ \E p \in Procs : ReservationCheck(p)
    \/ \E p \in Procs, t \in Tokens : ReservationCommit(p, t)
    \/ \E p \in Procs : DeleteCommit(p)

SpecDeleteBook == InitDeleteBook /\ [][NextDeleteBook]_vars

(***************************************************************************)
(* C17: however an admin's delete of the row on seat s and a booking of s  *)
(* interleave, the outcome is that of one of the two serial orders.  Once  *)
(* both have answered, either the table holds no row and the booking was   *)
(* answered SeatTaken, or it holds exactly one row, the one the booking    *)
(* wrote on s, and the booking was answered Success; never two rows.  The  *)
(* booking is answered SeatTaken only while the row to delete is still in  *)
(* the table and the delete has not answered, never after the delete.      *)
(***************************************************************************)
Booked(r) == r.passengerName = <<"A", " ", "L">>

C17_Outcome ==
    AllAnswered =>
        \/ /\ reservations = {}
           /\ \A p \in Procs : BookAnswered(p) => req[p].result = "SeatTaken"
        \/ /\ \E r \in reservations : reservations = {r} /\ Booked(r)
           /\ \A p \in Procs :
                  BookAnswered(p) =>
                      /\ req[p].result = "Success"
                      /\ Reserved(FormRow(req[p].form), FormCol(req[p].form))

C17_Step ==
    \A p \in Procs :
        /\ (BookingEnds(p) /\ req'[p].result = "SeatTaken") =>
               /\ \E r \in reservations :
                      /\ ~Booked(r)
                      /\ r.seatRow = FormRow(req[p].form)
                      /\ r.seatColumn = FormCol(req[p].form)
               /\ \E q \in Procs : req[q].pc = "delete"
               /\ reservations' = reservations
        /\ (BookingEnds(p) /\ req'[p].result = "Success") =>
               /\ reservations = {}
               /\ \A q \in Procs : req[q].pc # "delete"
        /\ Stepped(p, "delete") =>
               /\ req'[p].result = "Deleted"
               /\ \A r \in reservations' : Booked(r)

C17_DeleteBookSerial == []C17_Outcome /\ [][C17_Step]_vars

\* the delete answered first, then the booking succeeded: one row, the new one
C17_Witness ==
    /\ AllAnswered
    /\ \E p \in Procs : BookAnswered(p) /\ req[p].result = "Success"
    /\ \E r \in reservations : reservations = {r} /\ Booked(r) /\ r.seatRow = 11

(***************************************************************************)
(* Restarts.  The process is stopped and started again: the requests it    *)
(* was handling are lost, the two tables are in the database file and the  *)
(* sessions are in the callers' cookies (signed with the same SECRET_KEY), *)
(* and the main block runs init_db again before it serves.  The database   *)
(* file of the first start is empty or holds an account made by hand.      *)
(***************************************************************************)
Restart ==
    /\ booted
    /\ booted' = FALSE
    /\ req' = [p \in Procs |-> Idle]
    /\ UNCHANGED <<reservations, admins, session>>

InitRestart ==
    /\ reservations = {}
    /\ admins \in {{}, {NewAdmin("root", "toor")}}
    /\ session = [c \in Callers |-> LoggedOutSession]
    /\ booted = FALSE
    /\ req = [p \in Procs |-> Idle]

NextRestart == Next \/ Restart

SpecRestart == InitRestart /\ [][NextRestart]_vars

(***************************************************************************)
(* C18: init_db adds the default admin account if and only if the admins   *)
(* table is empty, and changes nothing else.  Run again on a restart it    *)
(* leaves the accounts and the reservations as they are: once it has run   *)
(* the table is never empty.  No other step - booking, login, logout,      *)
(* delete, seat-map or dashboard read, restart - adds, changes or removes  *)
(* an account.                                                             *)
(***************************************************************************)
InitDbRuns == ~booted /\ booted'

C18_Step ==
    /\ InitDbRuns =>
           /\ admins = {} => admins' = {DefaultAdmin}
           /\ admins # {} => admins' = admins
           /\ reservations' = reservations
    /\ admins' # admins => InitDbRuns
    /\ (booted /\ ~booted') => reservations' = reservations

C18_InitDbIdempotent == [](booted => admins # {}) /\ [][C18_Step]_vars

\* serving again after a restart (no answer on record, a row in the table), and
\* the account made by hand is still the only one
C18_Witness ==
    /\ booted
    /\ reservations # {}
    /\ \A p \in Procs : req[p] = Idle
    /\ admins = {NewAdmin("root", "toor")}
    /\ \E c \in Callers : session[c].admin_logged_in

(***************************************************************************)
(* Fair scheduling.  Each request runs in a thread of its own, and a       *)
(* thread that can take its next step takes it in the end: the steps left  *)
(* to a handler that has been received are weakly fair.  Nothing is asked  *)
(* of the arrival of new requests.                                         *)
(***************************************************************************)
Fairness ==
    \A p \in Procs :
        /\ WF_vars(ReservationCheck(p))
        /\ WF_vars(\E t \in Tokens : ReservationCommit(p, t))
        /\ WF_vars(DeleteCommit(p))

SpecFair == Spec /\ Fairness

(***************************************************************************)
(* C19: under fair scheduling every request that has been received ends    *)
(* with an answer, whatever the other worker is doing: a handler that has  *)
(* still to query or write the table gets to its answer, and no handler    *)
(* waits for another.  A login, a logout, a read and a request refused at  *)
(* validation or at the gate are answered in the step that receives them.  *)
(* Every answer carries exactly one result, one of those of its handler.   *)
(***************************************************************************)
InFlight(p) == req[p].pc \in {"check", "commit", "delete"}

Results(op) ==
    CASE op = "make_reservation" ->
             {"SeatMap", "Success", "InvalidInput", "InvalidSeat", "SeatTaken"}
      [] op = "admin_login" -> {"Dashboard", "LoggedIn", "LoginForm", "AuthFailure"}
      [] op = "admin_logout" -> {"LoggedOut"}
      [] op = "delete_reservation" -> {"Deleted", "NotFound", "Unauthorized"}

C19_OneResult ==
    \A p \in Procs :
        /\ req[p].pc \in {"idle", "done", "check", "commit", "delete"}
        /\ req[p].pc = "done" => req[p].result \in Results(req[p].op)
        /\ req[p].op \in {"admin_login", "admin_logout"} => req[p].pc = "done"

C19_EveryRequestCompletes ==
    /\ []C19_OneResult
    /\ \A p \in Procs : InFlight(p) ~> ~InFlight(p)

\* a delete and a booking were in flight together, and the booking has answered
C19_Witness ==
    \E p, q \in Procs :
        /\ BookAnswered(p) /\ req[p].result = "Success"
        /\ req[q].pc = "delete"

(***************************************************************************)
(* C20: in every reachable state the total sales on a dashboard is the sum *)
(* of the prices of the seats its seat map shows as X, and so is at most   *)
(* 12 * (100 + 75 + 50 + 100) = 3900.                                      *)
(***************************************************************************)
ShownInColumn(chart, col) ==
    Cardinality({r \in 0..11 : chart[r][col + 1] = "X"})

ChartSum(chart) ==
    100 * ShownInColumn(chart, 0) + 75 * ShownInColumn(chart, 1)
        + 50 * ShownInColumn(chart, 2) + 100 * ShownInColumn(chart, 3)

C20_TotalIsSeatMapSum ==
    \A p \in Procs :
        DashboardAnswered(p) =>
            /\ req[p].total_sales = ChartSum(req[p].seating_chart)
            /\ req[p].total_sales <= 12 * (100 + 75 + 50 + 100)

====
